---- MODULE Spec2Model ----
(***************************************************************************)
(* xeogl.Object (src/src/objects/object.js): the scene-graph node with its *)
(* parent/child bookkeeping, lazily rebuilt local/world matrices, lazily   *)
(* rebuilt boundaries with "boundary" events, and recursively applied      *)
(* render states.                                                          *)
(*                                                                         *)
(* The operations of object.js are sequential JavaScript methods that call *)
(* each other; each is written here as an operator from heap to heap (the  *)
(* record h holds every object's fields), and each action applies one      *)
(* public method to the current heap and stores the result.                *)
(*                                                                         *)
(* Space is cut down to one axis: a matrix is the affine map x -> a*x + t, *)
(* a rotation is a turn about the perpendicular axis by a multiple of 180  *)
(* degrees (so it maps the axis to itself or to its opposite), and a box   *)
(* is an interval.  Matrix multiplication stays non-commutative.           *)
(***************************************************************************)
EXTENDS Integers, Sequences, FiniteSets, TLC

\* ---- bounds -------------------------------------------------------------
NumNodes == 3          \* objects in the scene, ids 1..NumNodes
TreeOps   == 3         \* calls in one run of SpecTree
WorldOps  == 4         \* calls in one run of SpecWorld
BoundsOps == 3         \* calls in one run of SpecBounds
StatesOps == 3         \* calls in one run of SpecStates
AllOps    == 2         \* calls in one run of Spec
ScenesOps == 3         \* calls in one run of SpecScenes
LifeOps   == 3         \* calls in one run of SpecLife
EntityOps == 4         \* calls in one run of SpecEntities
MaxCoord == 1          \* positions given to setters are 0..MaxCoord
MatrixOps == 3         \* calls in one run of SpecMatrix
RotationOps == 3       \* calls in one run of SpecRotation
OBBOps    == 3         \* calls in one run of SpecOBB
AttachOps == 3         \* calls in one run of SpecAttach
HandlerOps == 2        \* calls in one run of SpecHandlers

Nodes     == 1..NumNodes
NoParent  == 0                     \* _parent = null
MissingId == NumNodes + 1          \* an id that scene.objects does not hold
OtherComponent == NumNodes + 2     \* a component that is not a xeogl.Object

\* ---- xeogl.math on one axis ----------------------------------------------
\* A 4x4 matrix restricted to one axis: x -> a*x + t.
Mat(a, t) == [a |-> a, t |-> t]

identityMat4 == Mat(1, 0)

\* mulMat4(a, b): the product a*b (apply b first, then a).
mulMat4(m1, m2) == Mat(m1.a * m2.a, m1.a * m2.t + m1.t)

\* A unit quaternion about the perpendicular axis: [0, 0, z, w].
Quat(z, w) == [z |-> z, w |-> w]

identityQuaternion == Quat(0, 1)

\* mulQuaternions(p, q) for rotations about one common axis.
mulQuaternions(p, q) == Quat(p.w * q.z + p.z * q.w, p.w * q.w - p.z * q.z)

\* What the rotation does to the modelled axis: cos(angle) = w^2 - z^2.
RotOf(q) == q.w * q.w - q.z * q.z

\* Degrees are multiples of 180; the half angle is a multiple of 90.
HalfTurns(deg) == (deg \div 180) % 4

\* eulerToQuaternion / angleAxisToQuaternion: [sin(deg/2), cos(deg/2)].
eulerToQuaternion(deg) ==
    CASE HalfTurns(deg) = 0 -> Quat(0, 1)
      [] HalfTurns(deg) = 1 -> Quat(1, 0)
      [] HalfTurns(deg) = 2 -> Quat(0, -1)
      [] OTHER              -> Quat(-1, 0)

angleAxisToQuaternion(deg) == eulerToQuaternion(deg)

\* quaternionToEuler: the angle of the rotation, in degrees.
quaternionToEuler(q) == IF RotOf(q) = 1 THEN 0 ELSE 180

\* composeMat4(position, quaternion, scale): translate * rotate * scale.
composeMat4(p, q, s) == Mat(RotOf(q) * s, p)

Abs(x) == IF x < 0 THEN -x ELSE x

\* decomposeMat4(m): position, rotation and (positive) scale of m.
decomposePosition(m)   == m.t
decomposeScale(m)      == Abs(m.a)
decomposeQuaternion(m) == IF m.a < 0 THEN Quat(1, 0) ELSE Quat(0, 1)

\* vec3ApplyQuaternion(q, axis): the axis (+1 or -1) turned by q.
vec3ApplyQuaternion(q, axis) == RotOf(q) * axis

\* Boxes are intervals.  collapseAABB3 sets min to MAX_DOUBLE, max to -MAX_DOUBLE.
MAX_DOUBLE == 1000

AABB(lo, hi) == [min |-> lo, max |-> hi]

collapseAABB3 == AABB(MAX_DOUBLE, -MAX_DOUBLE)

Min2(x, y) == IF x < y THEN x ELSE y
Max2(x, y) == IF x > y THEN x ELSE y

\* expandAABB3(a, b): a grown to hold b.
expandAABB3(a, b) == AABB(Min2(a.min, b.min), Max2(a.max, b.max))

\* The extent of a Mesh's geometry in its own space: the interval [0, 1].
GeometryMin == 0
GeometryMax == 1

\* A Mesh's world boundary: its geometry's extent under its world matrix.
meshAABB(m) ==
    AABB(Min2(m.a * GeometryMin + m.t, m.a * GeometryMax + m.t),
         Max2(m.a * GeometryMin + m.t, m.a * GeometryMax + m.t))

\* An oriented box, as the images of the two ends of the extent it was built from.
OBB(c0, c1) == [c0 |-> c0, c1 |-> c1]

\* xeogl.math.AABB3ToOBB3: the corners of an axis-aligned box.
AABB3ToOBB3(box) == OBB(box.min, box.max)

\* A Mesh's oriented boundary: its geometry's corners under its world matrix.
meshOBB(m) == OBB(m.a * GeometryMin + m.t, m.a * GeometryMax + m.t)

\* xeogl.math.inverseMat4 and transposeMat4, kept as the terms they compute: the
\* inverse of a scaling matrix has no integer entries.
inverseMat4(m) == [inverseOf |-> m]
transposeMat4(m) == [transposeOf |-> m]

\* ---- render states --------------------------------------------------------
\* Setters that read "anything but false" as true, and the ones that use !!.
TrueUnlessFalse == {"visible", "clippable", "collidable", "pickable"}
TruthyProps     == {"culled", "ghosted", "highlighted", "selected", "outlined",
                    "castShadow", "receiveShadow"}
BoolProps       == TrueUnlessFalse \cup TruthyProps
StateProps      == BoolProps \cup {"colorize", "opacity"}

White == <<1, 1, 1>>
Blue  == <<0, 0, 1>>

\* The value a setter stores when its argument is omitted (undefined).
DefaultOf(prop) ==
    CASE prop \in TrueUnlessFalse -> TRUE
      [] prop \in TruthyProps     -> FALSE
      [] prop = "colorize"        -> White
      [] OTHER                    -> 1

\* The states the scene keeps a per-state entity map for.
EntityStates == {"visible", "ghosted", "selected", "highlighted"}

\* Entity classes given to entityType; the value of _entityType before any
\* assignment (cfg.entityType omitted); and null, which callers assign to clear it.
EntityClasses == {"X", "Y"}
NoType == "undefined"
NullType == "null"

\* ---- state ------------------------------------------------------------------
VARIABLES
    parent,                 \* _parent: node -> node or NoParent
    childList,              \* _childList: node -> sequence of nodes
    childMap,               \* _childMap: node -> set of child ids (its keys)
    childIDs,               \* _childIDs: node -> cached key list, or null
    rootObjects,            \* scene.rootObjects: set of ids
    position,               \* _position
    rotation,               \* _rotation (Euler degrees)
    quaternion,             \* _quaternion
    scale,                  \* _scale
    localMatrix,            \* _localMatrix
    worldMatrix,            \* _worldMatrix
    localMatrixDirty,
    worldMatrixDirty,
    worldNormalMatrixDirty,
    worldNormalMatrix,      \* _worldNormalMatrix
    obb,                    \* _obb
    aabb,                   \* _aabb
    aabbDirty,
    obbDirty,
    states,                 \* node -> record of the thirteen render states
    isMesh,                 \* node -> TRUE for a xeogl.Mesh, FALSE for a plain group
    scene,                  \* node -> the scene it was constructed in
    destroyed,              \* Component.destroyed
    entityType,             \* _entityType, NoType when unset
    entityTypes,            \* scene.entityTypes: class -> set of ids
    entities,               \* scene.entities: set of ids
    stateEntities,          \* scene.visibleEntities, ghostedEntities, selectedEntities,
                            \* highlightedEntities: state -> set of ids
    passes,                 \* "boundary" events of the last call, one sequence per pass
    unready,                \* per pass of the last call: the objects it notifies whose
                            \* aabbDirty or obbDirty was false when its first event fired
    observed,               \* the last call's pass that ran a subscriber's handler: what
                            \* it collected and what it delivered
    aborted,                \* the last call never returned (endless recursion or loop)
    lastOp,                 \* the last public call and how it ended
    retMatrix,              \* value returned by the last worldMatrix read
    retAABB,                \* value returned by the last aabb read
    left                    \* calls left in this run

vars == <<parent, childList, childMap, childIDs, rootObjects, position, rotation,
          quaternion, scale, localMatrix, worldMatrix, localMatrixDirty,
          worldMatrixDirty, worldNormalMatrixDirty, worldNormalMatrix, obb, aabb,
          aabbDirty, obbDirty,
          states, isMesh, scene, destroyed, entityType, entityTypes, entities,
          stateEntities, passes, unready, observed, aborted, lastOp, retMatrix,
          retAABB, left>>

\* _childIDs: null, or the key list it was last filled with.
NullIDs == [cached |-> FALSE, keys |-> {}]

\* No pass of the call ran a subscriber's handler.
NoPass == [collected |-> <<>>, delivered |-> <<>>]

\* The heap as one value, so that methods compose as the code's calls do.
Heap ==
    [parent |-> parent, childList |-> childList, childMap |-> childMap,
     childIDs |-> childIDs, rootObjects |-> rootObjects, position |-> position,
     rotation |-> rotation, quaternion |-> quaternion, scale |-> scale,
     localMatrix |-> localMatrix, worldMatrix |-> worldMatrix,
     localMatrixDirty |-> localMatrixDirty, worldMatrixDirty |-> worldMatrixDirty,
     worldNormalMatrixDirty |-> worldNormalMatrixDirty,
     worldNormalMatrix |-> worldNormalMatrix, obb |-> obb, aabb |-> aabb,
     aabbDirty |-> aabbDirty, obbDirty |-> obbDirty, states |-> states,
     destroyed |-> destroyed, entityType |-> entityType,
     entityTypes |-> entityTypes, entities |-> entities,
     stateEntities |-> stateEntities,
     passes |-> <<>>, unready |-> <<>>, observed |-> NoPass,
     aborted |-> FALSE, outcome |-> "ok"]

Commit(h) ==
    /\ parent' = h.parent
    /\ childList' = h.childList
    /\ childMap' = h.childMap
    /\ childIDs' = h.childIDs
    /\ rootObjects' = h.rootObjects
    /\ position' = h.position
    /\ rotation' = h.rotation
    /\ quaternion' = h.quaternion
    /\ scale' = h.scale
    /\ localMatrix' = h.localMatrix
    /\ worldMatrix' = h.worldMatrix
    /\ localMatrixDirty' = h.localMatrixDirty
    /\ worldMatrixDirty' = h.worldMatrixDirty
    /\ worldNormalMatrixDirty' = h.worldNormalMatrixDirty
    /\ worldNormalMatrix' = h.worldNormalMatrix
    /\ obb' = h.obb
    /\ aabb' = h.aabb
    /\ aabbDirty' = h.aabbDirty
    /\ obbDirty' = h.obbDirty
    /\ states' = h.states
    /\ destroyed' = h.destroyed
    /\ entityType' = h.entityType
    /\ entityTypes' = h.entityTypes
    /\ entities' = h.entities
    /\ stateEntities' = h.stateEntities
    /\ passes' = h.passes
    /\ unready' = h.unready
    /\ observed' = h.observed
    /\ aborted' = h.aborted
    /\ isMesh' = isMesh
    /\ scene' = scene

\* ---- transform management (object.js 725-772) -------------------------------
\* A recursive walk down _childList from n.  "seen" are the objects the walk has
\* entered, in the order the code enters them; "crash" says the walk came back to
\* an object it is still inside, which in the code is an endless recursion.
RECURSIVE WalkDown(_, _, _)
RECURSIVE WalkKids(_, _, _, _, _)
WalkDown(cl, n, path) ==
    IF n \in path
    THEN [seen |-> {}, crash |-> TRUE]
    ELSE WalkKids(cl, cl[n], 1, path \cup {n}, [seen |-> {n}, crash |-> FALSE])

WalkKids(cl, kids, i, path, acc) ==
    IF acc.crash \/ i > Len(kids)
    THEN acc
    ELSE LET r == WalkDown(cl, kids[i], path)
         IN  WalkKids(cl, kids, i + 1, path,
                      [seen |-> acc.seen \cup r.seen, crash |-> r.crash])

MarkAll(f, S) == [m \in Nodes |-> IF m \in S THEN TRUE ELSE f[m]]

\* _setWorldMatrixDirty
SetWorldMatrixDirty(h, n) ==
    IF h.aborted THEN h
    ELSE LET w == WalkDown(h.childList, n, {})
         IN  [h EXCEPT !.worldMatrixDirty = MarkAll(@, w.seen),
                       !.worldNormalMatrixDirty = MarkAll(@, w.seen),
                       !.aabbDirty = MarkAll(@, w.seen),
                       !.obbDirty = MarkAll(@, w.seen),
                       !.aborted = w.crash]

\* _setLocalMatrixDirty
SetLocalMatrixDirty(h, n) ==
    IF h.aborted THEN h
    ELSE SetWorldMatrixDirty([h EXCEPT !.localMatrixDirty[n] = TRUE], n)

\* _buildLocalMatrix
BuildLocalMatrix(h, n) ==
    [h EXCEPT !.localMatrix[n] = composeMat4(h.position[n], h.quaternion[n], h.scale[n]),
              !.localMatrixDirty[n] = FALSE]

\* The worldMatrix getter and _buildWorldMatrix, which reads the parent's
\* worldMatrix through its getter.  The value read is h'.worldMatrix[n].
RECURSIVE GetWorldMatrix(_, _, _)
\* A build that writes the product into the parent's cached matrix as well.
BuildWorldMatrixIntoParent(h, n, path) ==
    LET h1 == IF h.localMatrixDirty[n] THEN BuildLocalMatrix(h, n) ELSE h
    IN  IF h1.parent[n] = NoParent
        THEN [h1 EXCEPT !.worldMatrix[n] = h1.localMatrix[n],
                        !.worldMatrixDirty[n] = FALSE]
        ELSE LET h2 == GetWorldMatrix(h1, h1.parent[n], path \cup {n})
                 m  == mulMat4(h2.worldMatrix[h2.parent[n]], h2.localMatrix[n])
             IN  IF h2.aborted THEN h2
                 ELSE [h2 EXCEPT !.worldMatrix = [@ EXCEPT ![n] = m, ![h2.parent[n]] = m],
                                 !.worldMatrixDirty[n] = FALSE]

BuildWorldMatrix(h, n, path) ==
    LET h1 == IF h.localMatrixDirty[n] THEN BuildLocalMatrix(h, n) ELSE h
    IN  IF h1.parent[n] = NoParent
        THEN [h1 EXCEPT !.worldMatrix[n] = h1.localMatrix[n],
                        !.worldMatrixDirty[n] = FALSE]
        ELSE LET h2 == GetWorldMatrix(h1, h1.parent[n], path \cup {n})
             IN  IF h2.aborted THEN h2
                 ELSE [h2 EXCEPT !.worldMatrix[n] =
                                     mulMat4(h2.worldMatrix[h2.parent[n]], h2.localMatrix[n]),
                                 !.worldMatrixDirty[n] = FALSE]

GetWorldMatrix(h, n, path) ==
    IF h.aborted THEN h
    ELSE IF ~h.worldMatrixDirty[n] THEN h
    ELSE IF n \in path THEN [h EXCEPT !.aborted = TRUE]
    ELSE BuildWorldMatrix(h, n, path)

\* ---- boundary methods (object.js 778-848) -----------------------------------
\* setSubtreeBoundariesDirty: children first, then the object itself; an object is
\* put on the notification list when its _aabbDirty is already true.
RECURSIVE SubtreeNotifications(_, _, _)
RECURSIVE SubtreeKids(_, _, _, _, _)
SubtreeNotifications(h, n, path) ==
    IF n \in path
    THEN [list |-> <<>>, crash |-> TRUE]
    ELSE LET r == SubtreeKids(h, h.childList[n], 1, path \cup {n},
                              [list |-> <<>>, crash |-> FALSE])
         IN  IF r.crash THEN r
             ELSE [list |-> IF h.aabbDirty[n] THEN Append(r.list, n) ELSE r.list,
                   crash |-> FALSE]

SubtreeKids(h, kids, i, path, acc) ==
    IF acc.crash \/ i > Len(kids)
    THEN acc
    ELSE LET r == SubtreeNotifications(h, kids[i], path)
         IN  SubtreeKids(h, kids, i + 1, path,
                         [list |-> acc.list \o r.list, crash |-> r.crash])

\* setParentBoundariesDirty: the object itself, then up the _parent references;
\* again only objects whose _aabbDirty is already true are listed.  A cycle of
\* _parent references makes the loop endless.
RECURSIVE ParentNotifications(_, _, _)
ParentNotifications(h, n, visited) ==
    IF n = NoParent THEN [list |-> <<>>, crash |-> FALSE]
    ELSE IF n \in visited THEN [list |-> <<>>, crash |-> TRUE]
    ELSE LET r == ParentNotifications(h, h.parent[n], visited \cup {n})
         IN  [list |-> (IF h.aabbDirty[n] THEN <<n>> ELSE <<>>) \o r.list,
              crash |-> r.crash]

\* The flag assignments of the two walks: an object is listed when its _aabbDirty
\* is already true, and then its _aabbDirty and _obbDirty are assigned true.
MarkListed(h, list) ==
    [h EXCEPT !.obbDirty = [m \in Nodes |->
                               IF \E i \in DOMAIN list : list[i] = m THEN TRUE ELSE @[m]]]

\* The listed objects that are not marked dirty in heap h.
Unmarked(h, list) ==
    {list[i] : i \in {j \in DOMAIN list : ~(h.aabbDirty[list[j]] /\ h.obbDirty[list[j]])}}

\* A pass that fires each object's event as soon as the walk has marked it.
SetBoundaryDirtyFiringInWalk(h, n) ==
    IF h.aborted THEN h
    ELSE LET down == SubtreeNotifications(h, n, {})
             up   == ParentNotifications(h, n, {})
             list == down.list \o up.list
         IN  IF down.crash \/ up.crash
             THEN [h EXCEPT !.aborted = TRUE]
             ELSE [MarkListed(h, list) EXCEPT
                      !.passes = Append(@, list),
                      !.unready = Append(@, Unmarked(MarkListed(h, SubSeq(list, 1, 1)),
                                                     list))]

\* _setBoundaryDirty: both walks, then one "boundary" event per list entry.
SetBoundaryDirty(h, n) ==
    IF h.aborted THEN h
    ELSE LET down == SubtreeNotifications(h, n, {})
             up   == ParentNotifications(h, n, {})
             list == down.list \o up.list
             h1   == MarkListed(h, list)
         IN  IF down.crash \/ up.crash
             THEN [h EXCEPT !.aborted = TRUE]
             ELSE [h1 EXCEPT !.passes = Append(@, list),
                             !.unready = Append(@, Unmarked(h1, list))]

\* xeogl.Mesh's _updateAABB: the geometry's extent under the world matrix.
MeshUpdateAABB(h, n) ==
    LET h1 == GetWorldMatrix(h, n, {})
    IN  IF h1.aborted THEN h1
        ELSE [h1 EXCEPT !.aabb[n] = meshAABB(h1.worldMatrix[n]),
                        !.aabbDirty[n] = FALSE]

\* The aabb getter and _updateAABB, which reads each child's aabb through its
\* getter.  The value read is h'.aabb[n].
RECURSIVE GetAABB(_, _, _)
RECURSIVE ExpandKids(_, _, _, _, _)
RECURSIVE ExpandKidsLastOnly(_, _, _, _, _)
\* A loop that copies each child's box over the result instead of expanding it.
ExpandKidsLastOnly(h, kids, i, path, box) ==
    IF h.aborted \/ i > Len(kids)
    THEN [h |-> h, box |-> box]
    ELSE LET h1 == GetAABB(h, kids[i], path)
         IN  ExpandKidsLastOnly(h1, kids, i + 1, path,
                                IF h1.aborted THEN box ELSE h1.aabb[kids[i]])

ExpandKids(h, kids, i, path, box) ==
    IF h.aborted \/ i > Len(kids)
    THEN [h |-> h, box |-> box]
    ELSE LET h1 == GetAABB(h, kids[i], path)
         IN  ExpandKids(h1, kids, i + 1, path,
                        IF h1.aborted THEN box ELSE expandAABB3(box, h1.aabb[kids[i]]))

UpdateAABB(h, n, path) ==
    IF isMesh[n] THEN MeshUpdateAABB(h, n)
    ELSE LET r == ExpandKids(h, h.childList[n], 1, path \cup {n}, collapseAABB3)
         IN  IF r.h.aborted THEN r.h
             ELSE [r.h EXCEPT !.aabb[n] = r.box, !.aabbDirty[n] = FALSE]

GetAABB(h, n, path) ==
    IF h.aborted THEN h
    ELSE IF ~h.aabbDirty[n] THEN h
    ELSE IF n \in path THEN [h EXCEPT !.aborted = TRUE]
    ELSE UpdateAABB(h, n, path)

\* The matrix getter.  The value read is h'.localMatrix[n].
GetMatrix(h, n) ==
    IF h.localMatrixDirty[n] THEN BuildLocalMatrix(h, n) ELSE h

\* A build of the normal matrix that takes the cached world matrix as it is.
BuildWorldNormalMatrixFromCache(h, n) ==
    [h EXCEPT !.worldNormalMatrix[n] = transposeMat4(inverseMat4(h.worldMatrix[n])),
              !.worldNormalMatrixDirty[n] = FALSE]

\* _buildWorldNormalMatrix
BuildWorldNormalMatrix(h, n) ==
    LET h1 == IF h.worldMatrixDirty[n] THEN BuildWorldMatrix(h, n, {}) ELSE h
    IN  IF h1.aborted THEN h1
        ELSE [h1 EXCEPT !.worldNormalMatrix[n] =
                            transposeMat4(inverseMat4(h1.worldMatrix[n])),
                        !.worldNormalMatrixDirty[n] = FALSE]

\* The worldNormalMatrix getter.  The value read is h'.worldNormalMatrix[n].
GetWorldNormalMatrix(h, n) ==
    IF h.worldNormalMatrixDirty[n] THEN BuildWorldNormalMatrix(h, n) ELSE h

\* xeogl.Mesh's oriented boundary: the geometry's corners under the world matrix.
MeshUpdateOBB(h, n) ==
    LET h1 == GetWorldMatrix(h, n, {})
    IN  IF h1.aborted THEN h1
        ELSE [h1 EXCEPT !.obb[n] = meshOBB(h1.worldMatrix[n]),
                        !.obbDirty[n] = FALSE]

\* An update that always boxes the node's own aabb, whatever its children.
UpdateOBBFromAABB(h, n, path) ==
    LET h1 == GetAABB(h, n, {})
    IN  IF h1.aborted THEN h1
        ELSE [h1 EXCEPT !.obb[n] = AABB3ToOBB3(h1.aabb[n]),
                        !.obbDirty[n] = FALSE]

\* The obb getter and _updateOBB, which reads an only child's obb, or the
\* node's own aabb, through their getters.  The value read is h'.obb[n].
RECURSIVE GetOBB(_, _, _)
UpdateOBB(h, n, path) ==
    IF isMesh[n] THEN MeshUpdateOBB(h, n)
    ELSE IF Len(h.childList[n]) = 1
    THEN LET h1 == GetOBB(h, h.childList[n][1], path \cup {n})
         IN  IF h1.aborted THEN h1
             ELSE [h1 EXCEPT !.obb[n] = h1.obb[h1.childList[n][1]],
                             !.obbDirty[n] = FALSE]
    ELSE LET h1 == GetAABB(h, n, {})
         IN  IF h1.aborted THEN h1
             ELSE [h1 EXCEPT !.obb[n] = AABB3ToOBB3(h1.aabb[n]),
                             !.obbDirty[n] = FALSE]

GetOBB(h, n, path) ==
    IF h.aborted THEN h
    ELSE IF ~h.obbDirty[n] THEN h
    ELSE IF n \in path THEN [h EXCEPT !.aborted = TRUE]
    ELSE UpdateOBB(h, n, path)

\* The childIDs getter: fills _childIDs from the keys of _childMap when it is
\* null.  The value read is h'.childIDs[n].keys.
GetChildIDs(h, n) ==
    IF h.childIDs[n].cached THEN h
    ELSE [h EXCEPT !.childIDs[n] = [cached |-> TRUE, keys |-> h.childMap[n]]]

\* ---- the scene's entity maps -------------------------------------------------
\* scene._entityTypeAssigned: the object enters scene.entities and the map of its
\* class.
EntityTypeAssigned(h, n, class) ==
    [h EXCEPT !.entities = @ \cup {n}, !.entityTypes[class] = @ \cup {n}]

\* scene._entityTypeRemoved: the object leaves scene.entities and the map of its
\* class.
EntityTypeRemoved(h, n, class) ==
    [h EXCEPT !.entities = @ \ {n}, !.entityTypes[class] = @ \ {n}]

\* scene._entityVisibilityUpdated, _entityGhostedUpdated, _entitySelectedUpdated,
\* _entityHighlightedUpdated, called for each object of S with the same flag: the
\* object enters the state's map when the flag is true and leaves it otherwise.
EntityStateUpdated(h, S, prop, flag) ==
    [h EXCEPT !.stateEntities[prop] = IF flag THEN @ \cup S ELSE @ \ S]

\* The entityType setter (object.js 1146-1179).
RECURSIVE RegisterStates(_, _, _)
RegisterStates(h, n, props) ==
    IF props = {} THEN h
    ELSE LET prop == CHOOSE q \in props : TRUE
         IN  RegisterStates(
                 IF h.states[n][prop] THEN EntityStateUpdated(h, {n}, prop, TRUE) ELSE h,
                 n, props \ {prop})

RECURSIVE UnregisterStates(_, _, _, _)
UnregisterStates(h, n, props, always) ==
    IF props = {} THEN h
    ELSE LET prop == CHOOSE q \in props : TRUE
         IN  UnregisterStates(
                 IF always \/ h.states[n][prop]
                 THEN EntityStateUpdated(h, {n}, prop, FALSE) ELSE h,
                 n, props \ {prop}, always)

\* A setter that registers the new class without leaving the old one.
SetEntityTypeKeepingOld(h, n, newEntityType) ==
    IF h.entityType[n] = newEntityType THEN h
    ELSE LET h2 == [h EXCEPT !.entityType[n] = newEntityType]
         IN  IF newEntityType \in EntityClasses
             THEN RegisterStates(EntityTypeAssigned(h2, n, newEntityType), n, EntityStates)
             ELSE UnregisterStates(h2, n, EntityStates, TRUE)

\* A setter that hands the class on to each entry of _childList, as the state
\* setters hand on their value.
RECURSIVE SetEntityTypeCascading(_, _, _)
RECURSIVE CascadeEntityType(_, _, _, _)
CascadeEntityType(h, kids, i, newEntityType) ==
    IF i > Len(kids) THEN h
    ELSE CascadeEntityType(SetEntityTypeCascading(h, kids[i], newEntityType),
                           kids, i + 1, newEntityType)

SetEntityTypeCascading(h, n, newEntityType) ==
    IF h.entityType[n] = newEntityType THEN h
    ELSE LET old == h.entityType[n]
             h1  == IF old \in EntityClasses THEN EntityTypeRemoved(h, n, old) ELSE h
             h2  == [h1 EXCEPT !.entityType[n] = newEntityType]
             h3  == IF newEntityType \in EntityClasses
                    THEN RegisterStates(EntityTypeAssigned(h2, n, newEntityType),
                                        n, EntityStates)
                    ELSE UnregisterStates(h2, n, EntityStates, TRUE)
         IN  CascadeEntityType(h3, h3.childList[n], 1, newEntityType)

SetEntityType(h, n, newEntityType) ==
    IF h.entityType[n] = newEntityType THEN h
    ELSE LET old == h.entityType[n]
             h1  == IF old \in EntityClasses THEN EntityTypeRemoved(h, n, old) ELSE h
             h2  == [h1 EXCEPT !.entityType[n] = newEntityType]
         IN  IF newEntityType \in EntityClasses
             THEN RegisterStates(EntityTypeAssigned(h2, n, newEntityType), n, EntityStates)
             ELSE UnregisterStates(h2, n, EntityStates, TRUE)

\* ---- render-state setters (object.js 1541-1843) -----------------------------
\* Every setter stores the value on this object and then assigns it to each entry
\* of _childList through the same setter.
\* The visible, ghosted, selected and highlighted setters end with
\* "if (this._entityType) scene._entity<State>Updated(this, value)".
SetState(h, n, prop, v) ==
    IF h.aborted THEN h
    ELSE LET w  == WalkDown(h.childList, n, {})
             h1 == [h EXCEPT !.states = [m \in Nodes |->
                                           IF m \in w.seen
                                           THEN [h.states[m] EXCEPT ![prop] = v]
                                           ELSE h.states[m]],
                             !.aborted = w.crash]
         IN  IF prop \in EntityStates
             THEN EntityStateUpdated(h1, {m \in w.seen : h.entityType[m] \in EntityClasses},
                                     prop, v)
             ELSE h1

\* ---- child management (object.js 871-969) -----------------------------------
\* Every argument of the model is a xeogl.Object or a scene id: a reference is
\* neither numeric, nor a string, nor a plain configuration object, so addChild
\* takes its last branch for it.  Ids are unique over all scenes, and the
\* rootObjects maps of all scenes are kept as one set: an object only enters the
\* map of its parent's scene, which addChild has checked to be its own.
SceneOf(n) == scene[n]

\* scene.objects[id] of the scene of object p: the live objects of that scene.
Registered(h, p, id) == id \in Nodes /\ ~h.destroyed[id] /\ SceneOf(id) = SceneOf(p)

\* Index of the first entry of list whose id is o, or 0.
RECURSIVE IndexOf(_, _, _)
IndexOf(list, o, i) ==
    IF i > Len(list) THEN 0
    ELSE IF list[i] = o THEN i
    ELSE IndexOf(list, o, i + 1)

\* Array.prototype.splice(i, 1) returns the removed elements.
SpliceResult(list, i) == <<list[i]>>

\* A removal that detaches the object from whatever parent it has when the
\* receiver's list does not hold it.
RemoveChildFromAnyParent(h, p, o) ==
    IF h.aborted THEN h
    ELSE LET i == IndexOf(h.childList[p], o, 1)
         IN  IF i = 0
             THEN SetBoundaryDirty(
                      SetWorldMatrixDirty([h EXCEPT !.parent[o] = NoParent,
                                                    !.rootObjects = @ \cup {o},
                                                    !.outcome = "notChild"], o), o)
             ELSE LET h1 == [h EXCEPT !.parent[o] = NoParent,
                                      !.childList[p] = SpliceResult(h.childList[p], i),
                                      !.childMap[p] = @ \ {o},
                                      !.childIDs[p] = NullIDs,
                                      !.rootObjects = @ \cup {o}]
                  IN  SetBoundaryDirty(SetBoundaryDirty(SetWorldMatrixDirty(h1, o), o), p)

\* removeChild
RemoveChild(h, p, o) ==
    IF h.aborted THEN h
    ELSE LET i == IndexOf(h.childList[p], o, 1)
         IN  IF i = 0 THEN [h EXCEPT !.outcome = "notChild"]
             ELSE LET h1 == [h EXCEPT !.parent[o] = NoParent,
                                      !.childList[p] = SpliceResult(h.childList[p], i),
                                      !.childMap[p] = @ \ {o},
                                      !.childIDs[p] = NullIDs,
                                      !.rootObjects = @ \cup {o}]
                  IN  SetBoundaryDirty(SetBoundaryDirty(SetWorldMatrixDirty(h1, o), o), p)

\* removeChildren: the loop over _childList, then the lists are emptied.
RECURSIVE DetachAll(_, _, _)
DetachAll(h, kids, i) ==
    IF h.aborted \/ i > Len(kids) THEN h
    ELSE LET o  == kids[i]
             h1 == [h EXCEPT !.parent[o] = NoParent, !.rootObjects = @ \cup {o}]
         IN  DetachAll(SetBoundaryDirty(SetWorldMatrixDirty(h1, o), o), kids, i + 1)

RemoveChildren(h, p) ==
    IF h.aborted THEN h
    ELSE LET h1 == DetachAll(h, h.childList[p], 1)
         IN  IF h1.aborted THEN h1
             ELSE SetBoundaryDirty([h1 EXCEPT !.childList[p] = <<>>,
                                              !.childMap[p] = {},
                                              !.childIDs[p] = NullIDs], p)

\* _destroy (object.js 1908-1938): detaches the children, detaches this object
\* from its parent, and takes it out of the entity maps.
ObjectDestroy(h, n) ==
    LET h1 == RemoveChildren(h, n)
        h2 == IF h1.parent[n] # NoParent THEN RemoveChild(h1, h1.parent[n], n) ELSE h1
        t  == h2.entityType[n]
    IN  IF h2.aborted \/ t \notin EntityClasses THEN h2
        ELSE UnregisterStates(
                 EntityTypeRemoved([h2 EXCEPT !.entityTypes[t] = @ \ {n}], n, t),
                 n, EntityStates, FALSE)

\* Component.destroy: does nothing on a destroyed component; otherwise runs
\* _destroy, marks the component destroyed, and the scene drops it from its
\* registry and its root set.
Destroy(h, n) ==
    IF h.destroyed[n] THEN h
    ELSE LET h1 == ObjectDestroy(h, n)
         IN  IF h1.aborted THEN h1
             ELSE [h1 EXCEPT !.destroyed[n] = TRUE,
                             !.rootObjects = @ \ {n},
                             !.outcome = "destroyed"]

\* The assignments of addChild's inheritStates block, as <<property assigned on
\* the child, property read from this>>.
InheritedAssignments ==
    << <<"visible", "visible">>, <<"culled", "culled">>, <<"ghosted", "ghosted">>,
       <<"highlited", "highlighted">>, <<"selected", "selected">>,
       <<"outlined", "outlined">>, <<"clippable", "clippable">>,
       <<"pickable", "pickable">>, <<"collidable", "collidable">>,
       <<"castShadow", "castShadow">>, <<"receiveShadow", "receiveShadow">>,
       <<"colorize", "colorize">>, <<"opacity", "opacity">> >>

\* object.<name> = value: a setter runs when Object defines <name>; any other
\* name becomes a plain property of the object that nothing reads.
AssignProperty(h, o, name, v) ==
    IF name \in StateProps THEN SetState(h, o, name, v) ELSE h

RECURSIVE InheritStates(_, _, _, _)
InheritStates(h, p, o, i) ==
    IF h.aborted \/ i > Len(InheritedAssignments) THEN h
    ELSE InheritStates(
             AssignProperty(h, o, InheritedAssignments[i][1],
                            h.states[p][InheritedAssignments[i][2]]),
             p, o, i + 1)

\* An attachment that leaves the parent's cached id list as it is.
AttachChildKeepingIDs(h, p, o, inherit) ==
    IF h.aborted THEN h
    ELSE IF SceneOf(o) # SceneOf(p) THEN [h EXCEPT !.outcome = "otherScene"]
    ELSE LET h1 == [h EXCEPT !.rootObjects = @ \ {o},
                             !.childList[p] = Append(@, o),
                             !.childMap[p] = @ \cup {o},
                             !.parent[o] = p,
                             !.outcome = "added"]
             h2 == IF inherit THEN InheritStates(h1, p, o, 1) ELSE h1
         IN  SetBoundaryDirty(SetWorldMatrixDirty(h2, o), o)

\* An attachment that copies the parent's states whatever inheritStates is.
AttachChildInheriting(h, p, o, inherit) ==
    IF h.aborted THEN h
    ELSE IF SceneOf(o) # SceneOf(p) THEN [h EXCEPT !.outcome = "otherScene"]
    ELSE LET h1 == [h EXCEPT !.rootObjects = @ \ {o},
                             !.childList[p] = Append(@, o),
                             !.childMap[p] = @ \cup {o},
                             !.childIDs[p] = NullIDs,
                             !.parent[o] = p,
                             !.outcome = "added"]
         IN  SetBoundaryDirty(SetWorldMatrixDirty(InheritStates(h1, p, o, 1), o), o)

\* The tail of addChild, from "var id = object.id" on.
AttachChild(h, p, o, inherit) ==
    IF h.aborted THEN h
    ELSE IF SceneOf(o) # SceneOf(p) THEN [h EXCEPT !.outcome = "otherScene"]
    ELSE LET h1 == [h EXCEPT !.rootObjects = @ \ {o},
                             !.childList[p] = Append(@, o),
                             !.childMap[p] = @ \cup {o},
                             !.childIDs[p] = NullIDs,
                             !.parent[o] = p,
                             !.outcome = "added"]
             h2 == IF inherit THEN InheritStates(h1, p, o, 1) ELSE h1
         IN  SetBoundaryDirty(SetWorldMatrixDirty(h2, o), o)

\* addChild.  arg is an object reference [byId |-> FALSE, n |-> object] or a
\* scene id [byId |-> TRUE, n |-> id].
AddChild(h, p, arg, inherit) ==
    IF arg.byId
    THEN IF ~Registered(h, p, arg.n)
         THEN [h EXCEPT !.outcome = "notFound"]
         ELSE AttachChild(h, p, arg.n, inherit)
    ELSE IF arg.n = OtherComponent THEN [h EXCEPT !.outcome = "notObject"]
    ELSE IF h.parent[arg.n] # NoParent
         THEN IF h.parent[arg.n] = p
              THEN [h EXCEPT !.outcome = "alreadyChild"]
              ELSE AttachChild(RemoveChild(h, h.parent[arg.n], arg.n), p, arg.n, inherit)
         ELSE AttachChild(h, p, arg.n, inherit)

\* The parent setter (object.js 1250-1268), called on object n.  Given a component
\* that is not an Object, it reaches "object.addChild(this)", which such a
\* component does not have: the call throws and nothing has been changed.
SetParent(h, n, arg) ==
    IF arg.byId /\ ~Registered(h, n, arg.n)
    THEN [h EXCEPT !.outcome = "notFound"]
    ELSE IF arg.n = OtherComponent THEN [h EXCEPT !.outcome = "threw"]
    ELSE IF SceneOf(arg.n) # SceneOf(n) THEN [h EXCEPT !.outcome = "otherScene"]
    ELSE IF h.parent[n] # NoParent /\ h.parent[n] = arg.n
    THEN [h EXCEPT !.outcome = "alreadyChild"]
    ELSE AddChild(h, arg.n, [byId |-> FALSE, n |-> n], TRUE)

\* ---- transform setters and methods (object.js 978-1116, 1285-1381) ----------
\* position setter
SetPosition(h, n, v) ==
    SetBoundaryDirty(SetLocalMatrixDirty([h EXCEPT !.position[n] = v], n), n)

\* _setBoundaryDirty on n while a subscriber's "boundary" handler on object w
\* sets the position of object t to v, the first time it is called.  The
\* notification array and its length belong to the one closure all objects
\* share: the nested pass of the handler's set starts the length again at zero
\* and writes its own objects from the array's start, and when it returns the
\* outer loop goes on from its own index over the nested pass's objects, up to
\* the nested pass's length.
FirstIndexOf(list, x) ==
    IF \E i \in DOMAIN list : list[i] = x
    THEN CHOOSE i \in DOMAIN list : list[i] = x /\ \A j \in 1..(i - 1) : list[j] # x
    ELSE 0

ObservedPass(h, n, w, t, v) ==
    IF h.aborted THEN h
    ELSE LET down == SubtreeNotifications(h, n, {})
             up   == ParentNotifications(h, n, {})
             list == down.list \o up.list
             h1   == MarkListed(h, list)
             k    == FirstIndexOf(list, w)
             h2   == SetPosition(h1, t, v)
             nested == h2.passes[Len(h2.passes)]
             delivered == SubSeq(list, 1, k) \o SubSeq(nested, k + 1, Len(nested))
         IN  IF down.crash \/ up.crash THEN [h EXCEPT !.aborted = TRUE]
             ELSE IF k = 0
             THEN [h1 EXCEPT !.passes = Append(@, list),
                             !.unready = Append(@, Unmarked(h1, list))]
             ELSE IF h2.aborted THEN h2
             ELSE [h2 EXCEPT !.passes = Append(@, delivered),
                             !.unready = Append(@, Unmarked(h1, list)),
                             !.observed = [collected |-> list, delivered |-> delivered]]

\* rotation setter
SetRotation(h, n, deg) ==
    SetBoundaryDirty(
        SetLocalMatrixDirty([h EXCEPT !.rotation[n] = deg,
                                      !.quaternion[n] = eulerToQuaternion(deg)], n), n)

\* quaternion setter
SetQuaternion(h, n, q) ==
    SetBoundaryDirty(
        SetLocalMatrixDirty([h EXCEPT !.quaternion[n] = q,
                                      !.rotation[n] = quaternionToEuler(q)], n), n)

\* scale setter
SetScale(h, n, v) ==
    SetBoundaryDirty(SetLocalMatrixDirty([h EXCEPT !.scale[n] = v], n), n)

\* matrix setter: stores the matrix, decomposes it, and leaves it valid.
SetMatrix(h, n, m) ==
    SetBoundaryDirty(
        SetWorldMatrixDirty([h EXCEPT !.localMatrix[n] = m,
                                      !.position[n] = decomposePosition(m),
                                      !.quaternion[n] = decomposeQuaternion(m),
                                      !.scale[n] = decomposeScale(m),
                                      !.localMatrixDirty[n] = FALSE], n), n)

\* rotate(axis, angle): the quaternion setter, then the dirty calls once more.
Rotate(h, n, deg) ==
    LET q2 == mulQuaternions(h.quaternion[n], angleAxisToQuaternion(deg))
    IN  SetBoundaryDirty(SetLocalMatrixDirty(SetQuaternion(h, n, q2), n), n)

\* rotateOnWorldAxis(axis, angle): multiplies the angle's quaternion by
\* this.quaternion into the scratch array q1, assigns it to nothing, calls
\* neither dirty method, and returns this.
RotateOnWorldAxis(h, n, deg) ==
    LET q1 == mulQuaternions(angleAxisToQuaternion(deg), h.quaternion[n])
    IN  h

\* translate(axis, distance): adds the turned axis times distance to _position.
TranslatedPosition(h, n, axis, distance) ==
    h.position[n] + vec3ApplyQuaternion(h.quaternion[n], axis) * distance

Translate(h, n, axis, distance) ==
    SetBoundaryDirty(
        SetLocalMatrixDirty(
            [h EXCEPT !.position[n] = TranslatedPosition(h, n, axis, distance)], n), n)

\* ---- inputs -----------------------------------------------------------------
Coords    == 0..MaxCoord
Angles    == {0, 180}
Scales    == {1, 2}
Quats     == {Quat(0, 1), Quat(1, 0)}
Matrices  == {Mat(a, t) : a \in {1, -1}, t \in Coords}
ChildArgs ==
    [byId : {FALSE}, n : Nodes \cup {OtherComponent}]
        \cup [byId : {TRUE}, n : Nodes \cup {MissingId}]
EntityTypeArgs == EntityClasses \cup {NullType}

\* The setters that runs call: one of each shape of setter, and highlighted.
SetProps == {"visible", "culled", "highlighted", "colorize", "opacity"}

StateValues(prop) ==
    CASE prop \in BoolProps -> BOOLEAN
      [] prop = "colorize" -> {White, Blue}
      [] OTHER             -> {0, 1}

\* ---- the scene after construction ---------------------------------------------
NoOp == [op |-> "new", node |-> 0, arg |-> 0, byId |-> FALSE, inherit |-> FALSE,
         prop |-> "", matrix |-> identityMat4, outcome |-> "ok"]

\* Every object built with an empty configuration (object.js 643-705): the
\* setters run with omitted arguments, and the scene registers each as a root.
Fresh ==
    [parent |-> [n \in Nodes |-> NoParent],
     childList |-> [n \in Nodes |-> <<>>],
     childMap |-> [n \in Nodes |-> {}],
     childIDs |-> [n \in Nodes |-> NullIDs],
     rootObjects |-> Nodes,
     position |-> [n \in Nodes |-> 0],
     rotation |-> [n \in Nodes |-> 0],
     quaternion |-> [n \in Nodes |-> identityQuaternion],
     scale |-> [n \in Nodes |-> 1],
     localMatrix |-> [n \in Nodes |-> identityMat4],
     worldMatrix |-> [n \in Nodes |-> identityMat4],
     localMatrixDirty |-> [n \in Nodes |-> TRUE],
     worldMatrixDirty |-> [n \in Nodes |-> TRUE],
     worldNormalMatrixDirty |-> [n \in Nodes |-> TRUE],
     worldNormalMatrix |-> [n \in Nodes |-> transposeMat4(inverseMat4(identityMat4))],
     obb |-> [n \in Nodes |-> OBB(0, 0)],
     aabb |-> [n \in Nodes |-> collapseAABB3],
     aabbDirty |-> [n \in Nodes |-> TRUE],
     obbDirty |-> [n \in Nodes |-> TRUE],
     states |-> [n \in Nodes |-> [prop \in StateProps |-> DefaultOf(prop)]],
     destroyed |-> [n \in Nodes |-> FALSE],
     entityType |-> [n \in Nodes |-> NoType],
     entityTypes |-> [c \in EntityClasses |-> {}],
     entities |-> {},
     stateEntities |-> [prop \in EntityStates |-> {}],
     passes |-> <<>>, unready |-> <<>>, observed |-> NoPass,
     aborted |-> FALSE, outcome |-> "ok"]

\* Objects given their children at construction (cfg.children, object.js
\* 709-714): _init calls addChild for each.  "star": object 1 is built with all
\* the others as its children; "chain": each object is built with the next one
\* as its only child, the last one first.
RECURSIVE BuildStar(_, _)
BuildStar(h, i) ==
    IF i > NumNodes THEN h
    ELSE BuildStar(AddChild(h, 1, [byId |-> FALSE, n |-> i], TRUE), i + 1)

RECURSIVE BuildChain(_, _)
BuildChain(h, i) ==
    IF i < 1 THEN h
    ELSE BuildChain(AddChild(h, i, [byId |-> FALSE, n |-> i + 1], TRUE), i - 1)

Shapes == {"flat", "star", "chain"}

Constructed(shape) ==
    CASE shape = "star"  -> BuildStar(Fresh, 2)
      [] shape = "chain" -> BuildChain(Fresh, NumNodes - 1)
      [] OTHER           -> Fresh

InitFrom(h) ==
    /\ parent = h.parent
    /\ childList = h.childList
    /\ childMap = h.childMap
    /\ childIDs = h.childIDs
    /\ rootObjects = h.rootObjects
    /\ position = h.position
    /\ rotation = h.rotation
    /\ quaternion = h.quaternion
    /\ scale = h.scale
    /\ localMatrix = h.localMatrix
    /\ worldMatrix = h.worldMatrix
    /\ localMatrixDirty = h.localMatrixDirty
    /\ worldMatrixDirty = h.worldMatrixDirty
    /\ worldNormalMatrixDirty = h.worldNormalMatrixDirty
    /\ worldNormalMatrix = h.worldNormalMatrix
    /\ obb = h.obb
    /\ aabb = h.aabb
    /\ aabbDirty = h.aabbDirty
    /\ obbDirty = h.obbDirty
    /\ states = h.states
    /\ destroyed = h.destroyed
    /\ entityType = h.entityType
    /\ entityTypes = h.entityTypes
    /\ entities = h.entities
    /\ stateEntities = h.stateEntities
    /\ passes = <<>>
    /\ unready = <<>>
    /\ observed = NoPass
    /\ aborted = FALSE
    /\ lastOp = NoOp
    /\ retMatrix = identityMat4
    /\ retAABB = collapseAABB3

\* The last j objects are built in a second scene, the others in the first; k of
\* the objects are Meshes, the others plain groups.
SceneSplits == {0, NumNodes - 1}

Init ==
    /\ \E j \in SceneSplits :
           scene = [n \in Nodes |-> IF n > NumNodes - j THEN "B" ELSE "A"]
    /\ \E shape \in Shapes : InitFrom(Constructed(shape))
    /\ \E k \in 0..NumNodes : isMesh = [n \in Nodes |-> n > NumNodes - k]

OneScene == \A n, m \in Nodes : scene[n] = scene[m]

\* ---- actions: one public call each ----------------------------------------------
\* A call that never returned ends the run.  Callers hold no destroyed object:
\* calls are made on live objects, with live objects as arguments.
CanCall == ~aborted /\ left > 0

Live == {n \in Nodes : ~destroyed[n]}

LiveArgs == {arg \in ChildArgs : arg.byId \/ arg.n \in Live \cup {OtherComponent}}

Call(h, op) ==
    /\ Commit(h)
    /\ lastOp' = [op EXCEPT !.outcome = IF h.aborted THEN "aborted" ELSE h.outcome]
    /\ left' = left - 1

addChild ==
    /\ CanCall
    /\ \E p \in Live, arg \in LiveArgs, inherit \in BOOLEAN :
          Call(AddChild(Heap, p, arg, inherit),
               [NoOp EXCEPT !.op = "addChild", !.node = p, !.arg = arg.n,
                            !.byId = arg.byId, !.inherit = inherit])
    /\ UNCHANGED <<retMatrix, retAABB>>

removeChild ==
    /\ CanCall
    /\ \E p \in Live, o \in Live :
          Call(RemoveChild(Heap, p, o),
               [NoOp EXCEPT !.op = "removeChild", !.node = p, !.arg = o])
    /\ UNCHANGED <<retMatrix, retAABB>>

removeChildren ==
    /\ CanCall
    /\ \E p \in Live :
          Call(RemoveChildren(Heap, p), [NoOp EXCEPT !.op = "removeChildren", !.node = p])
    /\ UNCHANGED <<retMatrix, retAABB>>

setParent ==
    /\ CanCall
    /\ \E n \in Live, arg \in LiveArgs :
          Call(SetParent(Heap, n, arg),
               [NoOp EXCEPT !.op = "parent", !.node = n, !.arg = arg.n,
                            !.byId = arg.byId, !.inherit = TRUE])
    /\ UNCHANGED <<retMatrix, retAABB>>

setPosition ==
    /\ CanCall
    /\ \E n \in Live, v \in Coords :
          Call(SetPosition(Heap, n, v),
               [NoOp EXCEPT !.op = "position", !.node = n, !.arg = v])
    /\ UNCHANGED <<retMatrix, retAABB>>

\* A position set on n while a handler subscribed to w's "boundary" sets the
\* position of t.
setPositionObserved ==
    /\ CanCall
    /\ \E n \in Live, w \in Live, t \in Live, v \in Coords, u \in Coords :
          Call(ObservedPass(SetLocalMatrixDirty([Heap EXCEPT !.position[n] = v], n),
                            n, w, t, u),
               [NoOp EXCEPT !.op = "positionObserved", !.node = n, !.arg = v])
    /\ UNCHANGED <<retMatrix, retAABB>>

setRotation ==
    /\ CanCall
    /\ \E n \in Live, deg \in Angles :
          Call(SetRotation(Heap, n, deg),
               [NoOp EXCEPT !.op = "rotation", !.node = n, !.arg = deg])
    /\ UNCHANGED <<retMatrix, retAABB>>

setQuaternion ==
    /\ CanCall
    /\ \E n \in Live, q \in Quats :
          Call(SetQuaternion(Heap, n, q),
               [NoOp EXCEPT !.op = "quaternion", !.node = n, !.arg = q.z])
    /\ UNCHANGED <<retMatrix, retAABB>>

setScale ==
    /\ CanCall
    /\ \E n \in Live, v \in Scales :
          Call(SetScale(Heap, n, v),
               [NoOp EXCEPT !.op = "scale", !.node = n, !.arg = v])
    /\ UNCHANGED <<retMatrix, retAABB>>

setMatrix ==
    /\ CanCall
    /\ \E n \in Live, m \in Matrices :
          Call(SetMatrix(Heap, n, m),
               [NoOp EXCEPT !.op = "matrix", !.node = n, !.arg = m.t, !.matrix = m])
    /\ UNCHANGED <<retMatrix, retAABB>>

rotate ==
    /\ CanCall
    /\ \E n \in Live, deg \in Angles \ {0} :
          Call(Rotate(Heap, n, deg),
               [NoOp EXCEPT !.op = "rotate", !.node = n, !.arg = deg])
    /\ UNCHANGED <<retMatrix, retAABB>>

rotateOnWorldAxis ==
    /\ CanCall
    /\ \E n \in Live, deg \in Angles \ {0} :
          Call(RotateOnWorldAxis(Heap, n, deg),
               [NoOp EXCEPT !.op = "rotateOnWorldAxis", !.node = n, !.arg = deg])
    /\ UNCHANGED <<retMatrix, retAABB>>

translate ==
    /\ CanCall
    /\ \E n \in Live, distance \in Coords \ {0} :
          /\ Abs(TranslatedPosition(Heap, n, 1, distance)) <= MaxCoord
          /\ Call(Translate(Heap, n, 1, distance),
                  [NoOp EXCEPT !.op = "translate", !.node = n, !.arg = distance])
    /\ UNCHANGED <<retMatrix, retAABB>>

setState ==
    /\ CanCall
    /\ \E n \in Live, prop \in SetProps :
          \E v \in StateValues(prop) :
              Call(SetState(Heap, n, prop, v),
                   [NoOp EXCEPT !.op = "state", !.node = n, !.prop = prop])
    /\ UNCHANGED <<retMatrix, retAABB>>

readWorldMatrix ==
    /\ CanCall
    /\ \E n \in Live :
          LET h == GetWorldMatrix(Heap, n, {})
          IN  /\ Call(h, [NoOp EXCEPT !.op = "worldMatrix", !.node = n])
              /\ retMatrix' = h.worldMatrix[n]
    /\ UNCHANGED retAABB

readAABB ==
    /\ CanCall
    /\ \E n \in Live :
          LET h == GetAABB(Heap, n, {})
          IN  /\ Call(h, [NoOp EXCEPT !.op = "aabb", !.node = n])
              /\ retAABB' = h.aabb[n]
    /\ UNCHANGED retMatrix

readMatrix ==
    /\ CanCall
    /\ \E n \in Live :
          LET h == GetMatrix(Heap, n)
          IN  /\ Call(h, [NoOp EXCEPT !.op = "getMatrix", !.node = n])
              /\ retMatrix' = h.localMatrix[n]
    /\ UNCHANGED retAABB

readWorldNormalMatrix ==
    /\ CanCall
    /\ \E n \in Live :
          Call(GetWorldNormalMatrix(Heap, n),
               [NoOp EXCEPT !.op = "worldNormalMatrix", !.node = n])
    /\ UNCHANGED <<retMatrix, retAABB>>

readOBB ==
    /\ CanCall
    /\ \E n \in Live :
          Call(GetOBB(Heap, n, {}), [NoOp EXCEPT !.op = "obb", !.node = n])
    /\ UNCHANGED <<retMatrix, retAABB>>

readChildIDs ==
    /\ CanCall
    /\ \E n \in Live :
          Call(GetChildIDs(Heap, n), [NoOp EXCEPT !.op = "childIDs", !.node = n])
    /\ UNCHANGED <<retMatrix, retAABB>>

setEntityType ==
    /\ CanCall
    /\ \E n \in Live, t \in EntityTypeArgs :
          Call(SetEntityType(Heap, n, t),
               [NoOp EXCEPT !.op = "entityType", !.node = n, !.prop = t])
    /\ UNCHANGED <<retMatrix, retAABB>>

\* The four setters that report to the scene's per-state entity maps.
setEntityState ==
    /\ CanCall
    /\ \E n \in Live, prop \in EntityStates, v \in BOOLEAN :
          Call(SetState(Heap, n, prop, v),
               [NoOp EXCEPT !.op = "state", !.node = n, !.prop = prop])
    /\ UNCHANGED <<retMatrix, retAABB>>

destroy ==
    /\ CanCall
    /\ \E n \in Live :
          Call(Destroy(Heap, n), [NoOp EXCEPT !.op = "destroy", !.node = n])
    /\ UNCHANGED <<retMatrix, retAABB>>

\* ---- specifications ---------------------------------------------------------------
Hierarchy == addChild \/ removeChild \/ removeChildren \/ setParent

Transforms ==
    \/ setPosition \/ setRotation \/ setQuaternion \/ setScale
    \/ setMatrix \/ rotate \/ translate

\* Every public call, over groups and Meshes.
Next ==
    \/ Hierarchy \/ Transforms \/ setState \/ readWorldMatrix \/ readAABB
    \/ readMatrix \/ readWorldNormalMatrix \/ readOBB
    \/ rotateOnWorldAxis \/ readChildIDs
    \/ setEntityType \/ setEntityState \/ destroy

InitAll == Init /\ left = AllOps

Spec == InitAll /\ [][Next]_vars

AllGroups == \A n \in Nodes : ~isMesh[n]

\* Runs of the child-management methods alone; every object is a plain group.
InitTree == Init /\ OneScene /\ AllGroups /\ left = TreeOps

NextTree ==
    \/ addChild \/ removeChild \/ removeChildren \/ setParent
    \/ readChildIDs

SpecTree == InitTree /\ [][NextTree]_vars

\* Child management, position sets and worldMatrix reads.
InitWorld == Init /\ OneScene /\ AllGroups /\ left = WorldOps

NextWorld ==
    \/ addChild \/ removeChild \/ removeChildren \/ setParent
    \/ setPosition \/ readWorldMatrix

SpecWorld == InitWorld /\ [][NextWorld]_vars

\* Child management, position sets and aabb reads, over groups and Meshes.
InitBounds == Init /\ OneScene /\ left = BoundsOps

NextBounds ==
    \/ addChild \/ removeChild \/ removeChildren \/ setParent
    \/ setPosition \/ readAABB

SpecBounds == InitBounds /\ [][NextBounds]_vars

\* Child management, every transform set, and reads of the three matrices.
InitMatrix == Init /\ OneScene /\ AllGroups /\ left = MatrixOps

NextMatrix ==
    \/ addChild \/ removeChild \/ removeChildren \/ setParent
    \/ setPosition \/ setRotation \/ setQuaternion \/ setScale
    \/ setMatrix \/ rotate \/ translate
    \/ readMatrix \/ readWorldMatrix \/ readWorldNormalMatrix

SpecMatrix == InitMatrix /\ [][NextMatrix]_vars

\* Every transform set and reads of the local matrix, on objects that stay where
\* they are in the hierarchy.
InitRotation == Init /\ OneScene /\ AllGroups /\ left = RotationOps

NextRotation ==
    \/ setPosition \/ setRotation \/ setQuaternion \/ setScale
    \/ setMatrix \/ rotate \/ rotateOnWorldAxis \/ translate
    \/ readMatrix

SpecRotation == InitRotation /\ [][NextRotation]_vars

\* Child management, rotation sets, and aabb and obb reads, over groups and
\* Meshes.
InitOBB == Init /\ OneScene /\ left = OBBOps

NextOBB ==
    \/ addChild \/ removeChild
    \/ setRotation \/ readAABB \/ readOBB

SpecOBB == InitOBB /\ [][NextOBB]_vars

\* Attaching and detaching, render-state sets, and aabb and worldMatrix reads.
InitAttach == Init /\ OneScene /\ AllGroups /\ left = AttachOps

NextAttach ==
    \/ addChild \/ removeChild
    \/ setState \/ readAABB \/ readWorldMatrix

SpecAttach == InitAttach /\ [][NextAttach]_vars

\* Position sets, with and without a subscriber that sets a position in its
\* "boundary" handler, and aabb reads.
InitHandlers == Init /\ OneScene /\ AllGroups /\ left = HandlerOps

NextHandlers == setPosition \/ setPositionObserved \/ readAABB

SpecHandlers == InitHandlers /\ [][NextHandlers]_vars

\* Child management and render-state sets.
InitStates == Init /\ OneScene /\ AllGroups /\ left = StatesOps

NextStates ==
    \/ addChild \/ removeChild \/ removeChildren \/ setParent
    \/ setState

SpecStates == InitStates /\ [][NextStates]_vars

\* Child management over two scenes.
InitScenes == Init /\ ~OneScene /\ AllGroups /\ left = ScenesOps

NextScenes == addChild \/ removeChild \/ removeChildren \/ setParent

SpecScenes == InitScenes /\ [][NextScenes]_vars

\* Child management, entity classification and destroy.
InitLife == Init /\ OneScene /\ AllGroups /\ left = LifeOps

NextLife ==
    \/ addChild \/ removeChild \/ removeChildren \/ setParent
    \/ setEntityType \/ destroy

SpecLife == InitLife /\ [][NextLife]_vars

\* Entity classification, the four entity states and destroy.
InitEntities == Init /\ OneScene /\ AllGroups /\ left = EntityOps

NextEntities == setEntityType \/ setEntityState \/ destroy

SpecEntities == InitEntities /\ [][NextEntities]_vars

\* ---- vocabulary of the properties ------------------------------------------------
Range(list) == {list[i] : i \in DOMAIN list}

Occurrences(list, x) == Cardinality({i \in DOMAIN list : list[i] = x})

NoDuplicates(list) == \A i, j \in DOMAIN list : list[i] = list[j] => i = j

\* The objects reached from n by following _parent, n excluded.
RECURSIVE AncestorsFrom(_, _, _)
AncestorsFrom(par, n, acc) ==
    IF par[n] = NoParent \/ par[n] \in acc THEN acc
    ELSE AncestorsFrom(par, par[n], acc \cup {par[n]})

StrictAncestors(n) == AncestorsFrom(parent, n, {})

\* The objects whose chain of _parent references passes through n.
Descendants(n) == {d \in Nodes : n \in StrictAncestors(d)}

\* The local matrix of n as its matrix getter returns it.
CurrentLocal(n) ==
    IF localMatrixDirty[n]
    THEN composeMat4(position[n], quaternion[n], scale[n])
    ELSE localMatrix[n]

\* The product of the current local matrices from the root down to n.
RECURSIVE ComposedWorld(_, _)
ComposedWorld(n, fuel) ==
    IF parent[n] = NoParent \/ fuel = 0 THEN CurrentLocal(n)
    ELSE mulMat4(ComposedWorld(parent[n], fuel - 1), CurrentLocal(n))

\* The union of a set of boxes.
RECURSIVE UnionOfBoxes(_, _, _)
UnionOfBoxes(boxes, i, acc) ==
    IF i > Len(boxes) THEN acc
    ELSE UnionOfBoxes(boxes, i + 1, expandAABB3(acc, boxes[i]))

\* The world boundary n has now: a Mesh's geometry under the composed world
\* matrix, a group's union of its children's boundaries.
RECURSIVE CurrentAABB(_, _)
CurrentAABB(n, fuel) ==
    IF isMesh[n] THEN meshAABB(ComposedWorld(n, NumNodes))
    ELSE IF fuel = 0 THEN collapseAABB3
    ELSE UnionOfBoxes([i \in DOMAIN childList[n] |-> CurrentAABB(childList[n][i], fuel - 1)],
                      1, collapseAABB3)

\* Number of "boundary" events n received during the last call.
RECURSIVE EventsIn(_, _, _)
EventsIn(ps, i, n) ==
    IF i > Len(ps) THEN 0
    ELSE Occurrences(ps[i], n) + EventsIn(ps, i + 1, n)

EventsOn(n) == EventsIn(passes, 1, n)

Returned == ~aborted /\ lastOp.outcome # "aborted"

TransformOps == {"position", "rotation", "quaternion", "scale", "matrix", "rotate",
                 "translate"}

\* The previous list with the entries equal to x taken out, order kept.
RECURSIVE Without(_, _)
Without(list, x) ==
    IF list = <<>> THEN <<>>
    ELSE IF Head(list) = x THEN Without(Tail(list), x)
    ELSE <<Head(list)>> \o Without(Tail(list), x)

\* ---- properties -------------------------------------------------------------------

\* C1: after any sequence of addChild (by reference or by id), removeChild,
\* removeChildren and parent sets, an object with a parent is exactly once in
\* that parent's child list and in no other child list, and an object without a
\* parent is in no child list.
C1_OneParentOneList ==
    Returned =>
        \A n \in Nodes :
            /\ parent[n] # NoParent => Occurrences(childList[parent[n]], n) = 1
            /\ \A p \in Nodes : p # parent[n] => n \notin Range(childList[p])

\* C2: a worldMatrix read returns the product of the current local matrices along
\* the object's current chain of parents (its local matrix alone for a root).
C2_WorldMatrixIsComposition ==
    (Returned /\ lastOp.op = "worldMatrix") =>
        retMatrix = ComposedWorld(lastOp.node, NumNodes)

\* C3: an aabb read on a group that has children returns the union of its
\* children's current world boundaries, also when the group's aabb had been
\* read before the children changed.
C3_AABBIsUnionOfChildren ==
    (Returned /\ lastOp.op = "aabb" /\ ~isMesh[lastOp.node]
                /\ childList[lastOp.node] # <<>>) =>
        retAABB = CurrentAABB(lastOp.node, NumNodes)

\* C4: after a transform set on n, after n was added as a child, and after n was
\* removed from its parent, aabbDirty and obbDirty are true on every strict
\* ancestor of n (for a removal: on the former parent and its ancestors).
BoundaryDirty(S) == \A a \in S : aabbDirty[a] /\ obbDirty[a]

C4_AncestorsBoundaryDirty ==
    Returned =>
        /\ lastOp.op \in TransformOps => BoundaryDirty(StrictAncestors(lastOp.node))
        /\ (lastOp.op = "addChild" /\ lastOp.outcome = "added") =>
               BoundaryDirty(StrictAncestors(lastOp.arg))
        /\ (lastOp.op = "removeChild" /\ lastOp.outcome = "ok") =>
               BoundaryDirty({lastOp.node} \cup StrictAncestors(lastOp.node))

\* C5: a position set on n fires exactly one "boundary" event on each strict
\* ancestor of n, whatever the ancestors' dirty flags were.
C5_OneEventPerAncestor ==
    (Returned /\ lastOp.op = "position") =>
        \A a \in StrictAncestors(lastOp.node) : EventsOn(a) = 1

\* C6: within one pass of _setBoundaryDirty no object receives more than one
\* "boundary" event, the object the pass started on included.
C6_OneEventPerPass ==
    \A i \in DOMAIN passes : NoDuplicates(passes[i])

\* C7: immediately after an inheritable property is set on n, every descendant
\* of n reports the value n reports.
C7_SetReachesDescendants ==
    (Returned /\ lastOp.op = "state") =>
        \A d \in Descendants(lastOp.node) :
            states[d][lastOp.prop] = states[lastOp.node][lastOp.prop]

\* C8: after addChild(c) succeeds with inheritStates omitted or true, c reports
\* the parent's current value of each of the thirteen inheritable properties.
C8_ChildInheritsAll ==
    (Returned /\ lastOp.op = "addChild" /\ lastOp.outcome = "added" /\ lastOp.inherit) =>
        \A prop \in StateProps :
            states[lastOp.arg][prop] = states[lastOp.node][prop]

\* C9: addChild of an object that is already a direct child of this object, given
\* by reference, by id or through the child's parent setter, changes nothing:
\* child lists, id maps, parent references, dirty flags and cached world matrices
\* stay as they were.
AlreadyChildOf(c, p) ==
    c \in Nodes /\ p \in Nodes /\ parent[c] = p /\ c \in Range(childList[p])

C9_ReAddIsNoOp ==
    [][ ( \/ lastOp'.op = "addChild" /\ AlreadyChildOf(lastOp'.arg, lastOp'.node)
          \/ lastOp'.op = "parent" /\ AlreadyChildOf(lastOp'.node, lastOp'.arg) )
        => UNCHANGED <<childList, childMap, parent, localMatrixDirty, worldMatrixDirty,
                       worldNormalMatrixDirty, aabbDirty, obbDirty, worldMatrix>> ]_vars

\* C10: after addChild(x) succeeds on P while x had another parent Q, x is gone
\* from Q's child list and id map, Q's other children keep their order, x is the
\* last entry of P's child list and x's parent is P.
C10_ReparentMoves ==
    [][ \A P, Q, x \in Nodes :
          ( /\ lastOp'.op = "addChild" /\ lastOp'.outcome = "added"
            /\ lastOp'.node = P /\ lastOp'.arg = x
            /\ parent[x] = Q /\ Q # P )
          => /\ childList'[Q] = Without(childList[Q], x)
             /\ x \notin childMap'[Q]
             /\ childList'[P] # <<>>
             /\ childList'[P][Len(childList'[P])] = x
             /\ parent'[x] = P ]_vars

\* C11: after removeChild(c) on an object whose child list contains c, the child
\* list is the previous list with exactly c removed (the other children kept, in
\* order), the id map lacks exactly c's id, c has no parent, and c is in the
\* scene's root set.
C11_RemoveChildResult ==
    [][ \A p, c \in Nodes :
          ( /\ lastOp'.op = "removeChild" /\ lastOp'.outcome = "ok"
            /\ lastOp'.node = p /\ lastOp'.arg = c
            /\ c \in Range(childList[p]) )
          => /\ childList'[p] = Without(childList[p], c)
             /\ childMap'[p] = childMap[p] \ {c}
             /\ parent'[c] = NoParent
             /\ c \in rootObjects' ]_vars

\* C12: after any sequence of construction, addChild, removeChild, removeChildren
\* and destroy, the scene's root set holds exactly the live objects that have no
\* parent.
C12_RootsAreLiveParentless ==
    Returned => rootObjects = {n \in Nodes : ~destroyed[n] /\ parent[n] = NoParent}

\* C13: an addChild or parent set that fails because the id is not found, the
\* argument is not an Object, or the object belongs to another scene, changes
\* nothing: parent references, child lists, id maps, the root set and the dirty
\* flags stay as they were, also when the rejected object already had a parent.
FailedOutcomes == {"notFound", "notObject", "otherScene", "threw"}

C13_FailedAddMutatesNothing ==
    [][ (lastOp'.op \in {"addChild", "parent"} /\ lastOp'.outcome \in FailedOutcomes)
        => UNCHANGED <<parent, childList, childMap, rootObjects, localMatrixDirty,
                       worldMatrixDirty, worldNormalMatrixDirty, aabbDirty, obbDirty>> ]_vars

\* C14: after any sequence of entityType sets, visible, ghosted, selected and
\* highlighted sets (direct or cascaded from an ancestor) and destroys, each
\* per-state entity map holds exactly the live objects that have an entityType
\* and the state's flag true.
C14_EntityMapsExact ==
    Returned =>
        \A prop \in EntityStates :
            stateEntities[prop] =
                {n \in Nodes : /\ ~destroyed[n]
                               /\ entityType[n] \in EntityClasses
                               /\ states[n][prop]}

\* C15: destroying an object destroys every object in its subtree: after
\* destroy() on n, every object that was a descendant of n is destroyed too.
C15_DestroyTakesSubtree ==
    [][ \A n \in Nodes :
          (lastOp'.op = "destroy" /\ lastOp'.outcome = "destroyed" /\ lastOp'.node = n)
          => \A d \in Descendants(n) : destroyed'[d] ]_vars

\* C16: after destroy() on an object n that had a parent, n is in no child list
\* and no id map, not in the scene's root set, and in no per-class or per-state
\* entity map.
C16_DestroyedIsGone ==
    [][ \A n \in Nodes :
          ( /\ lastOp'.op = "destroy" /\ lastOp'.outcome = "destroyed"
            /\ lastOp'.node = n /\ parent[n] # NoParent )
          => /\ \A p \in Nodes : n \notin Range(childList'[p]) /\ n \notin childMap'[p]
             /\ n \notin rootObjects'
             /\ n \notin entities'
             /\ \A class \in EntityClasses : n \notin entityTypes'[class]
             /\ \A prop \in EntityStates : n \notin stateEntities'[prop] ]_vars

\* C17: for a freshly built parent whose children are exactly two leaves with
\* world boundaries A and B, an aabb read on the parent returns the union of A
\* and B: the smaller of the two minima and the larger of the two maxima.
FreshlyBuilt(S) ==
    \A n \in S : aabbDirty[n] /\ obbDirty[n] /\ worldMatrixDirty[n] /\ localMatrixDirty[n]

ParentOfTwoLeaves(p, a, b) ==
    /\ ~isMesh[p] /\ parent[p] = NoParent /\ childList[p] = <<a, b>> /\ a # b
    /\ \A c \in {a, b} : isMesh[c] /\ parent[c] = p /\ childList[c] = <<>>

LeafBox(c) == meshAABB(ComposedWorld(c, NumNodes))

C17_UnionOfTwoLeaves ==
    [][ \A p, a, b \in Nodes :
          ( /\ lastOp'.op = "aabb" /\ lastOp'.outcome = "ok" /\ lastOp'.node = p
            /\ ParentOfTwoLeaves(p, a, b) /\ FreshlyBuilt({p, a, b}) )
          => retAABB' = AABB(Min2(LeafBox(a).min, LeafBox(b).min),
                             Max2(LeafBox(a).max, LeafBox(b).max)) ]_vars

\* A parent of two leaves with different boundaries has just had its aabb read,
\* and the box returned is neither leaf's.
C17_Witness ==
    /\ lastOp.op = "aabb" /\ lastOp.outcome = "ok"
    /\ \E a, b \in Nodes :
          /\ ParentOfTwoLeaves(lastOp.node, a, b)
          /\ ~aabbDirty[a] /\ ~aabbDirty[b] /\ ~aabbDirty[lastOp.node]
          /\ aabb[a] # aabb[b]
          /\ retAABB \notin {aabb[a], aabb[b]}
          /\ retAABB = aabb[lastOp.node]

\* C18: an aabb read on an object with no children and no leaf bound of its own
\* (a plain group) returns the collapsed box, whose minimum exceeds its maximum.
C18_ChildlessIsCollapsed ==
    (Returned /\ lastOp.op = "aabb" /\ ~isMesh[lastOp.node]
              /\ childList[lastOp.node] = <<>>) =>
        retAABB.min > retAABB.max

\* C19: for a chain root -> child with identity rotation and scale, the
\* translation of the child's world matrix, as a worldMatrix read returns it, is
\* the sum of the root's local position and the child's local position.
IdentityRotationAndScale(n) == quaternion[n] = identityQuaternion /\ scale[n] = 1

C19_ChildTranslationIsSum ==
    \A r, c \in Nodes :
        ( /\ Returned /\ lastOp.op = "worldMatrix" /\ lastOp.node = c
          /\ parent[c] = r /\ parent[r] = NoParent
          /\ IdentityRotationAndScale(r) /\ IdentityRotationAndScale(c) )
        => retMatrix.t = position[r] + position[c]

\* C20: an object constructed without any state configuration reports visible,
\* pickable, clippable, collidable, castShadow and receiveShadow true, and culled,
\* outlined, ghosted, highlighted and selected false.
DocumentedDefaults ==
    [visible |-> TRUE, culled |-> FALSE, pickable |-> TRUE, clippable |-> TRUE,
     collidable |-> TRUE, castShadow |-> TRUE, receiveShadow |-> TRUE,
     outlined |-> FALSE, ghosted |-> FALSE, highlighted |-> FALSE, selected |-> FALSE]

C20_ConstructorDefaults ==
    lastOp.op = "new" =>
        \A n \in Nodes : \A prop \in DOMAIN DocumentedDefaults :
            states[n][prop] = DocumentedDefaults[prop]

\* C21: after any sequence of addChild, removeChild, removeChildren, transform
\* sets and matrix reads, no object has a clean world matrix while an object
\* reached from it through parent references has a dirty one.
C21_CleanUnderCleanAncestors ==
    Returned =>
        \A n \in Nodes : \A a \in StrictAncestors(n) :
            ~worldMatrixDirty[n] => ~worldMatrixDirty[a]

\* C27: after a removeChild that found its argument, or a removeChildren, on P,
\* P's aabbDirty and obbDirty are true, whether or not P's aabb was clean before.
C27_RemovalDirtiesParentBoundary ==
    [][ ( /\ lastOp'.outcome = "ok"
          /\ \/ lastOp'.op = "removeChildren"
             \/ lastOp'.op = "removeChild"
                /\ lastOp'.arg \in Range(childList[lastOp'.node]) )
        => aabbDirty'[lastOp'.node] /\ obbDirty'[lastOp'.node] ]_vars

\* C28: after removeChildren() on P, P's child list and id map are empty, every
\* object that was a child of P has no parent and is in the root set, and every
\* such object and each of its descendants has worldMatrixDirty true.
FormerChildren(p) == {c \in Nodes : parent[c] = p} \cup Range(childList[p])

C28_RemoveChildrenDetachesAll ==
    [][ (lastOp'.op = "removeChildren" /\ lastOp'.outcome = "ok") =>
          LET P == lastOp'.node
          IN  /\ childList'[P] = <<>>
              /\ childMap'[P] = {}
              /\ \A c \in FormerChildren(P) :
                    /\ parent'[c] = NoParent
                    /\ c \in rootObjects'
                    /\ \A d \in {c} \cup Descendants(c) : worldMatrixDirty'[d] ]_vars

\* C29: removeChild(x) on an object whose child list does not hold x changes no
\* list, map, parent reference, root set or dirty flag, and fires no "boundary"
\* event.
C29_RemoveAbsentChangesNothing ==
    [][ ( /\ lastOp'.op = "removeChild" /\ lastOp'.outcome # "aborted"
          /\ lastOp'.arg \notin Range(childList[lastOp'.node]) )
        => /\ UNCHANGED <<parent, childList, childMap, childIDs, rootObjects,
                          localMatrixDirty, worldMatrixDirty, worldNormalMatrixDirty,
                          aabbDirty, obbDirty>>
           /\ passes' = <<>> ]_vars

\* A removeChild has just returned without finding its argument, which is the
\* child of another object and has children of its own.
C29_Witness ==
    /\ lastOp.op = "removeChild" /\ lastOp.outcome = "notChild"
    /\ lastOp.arg \notin Range(childList[lastOp.node])
    /\ parent[lastOp.arg] \notin {NoParent, lastOp.node}
    /\ lastOp.arg \in Range(childList[parent[lastOp.arg]])
    /\ childList[lastOp.arg] # <<>>

\* C30: addChild(c, false) that attaches c leaves every inheritable state of c
\* and of c's descendants as it was, makes c the last child of the receiver, and
\* leaves c's world matrix and c's boundary marked dirty.
C30_NoInheritAttachOnly ==
    [][ ( /\ lastOp'.op = "addChild" /\ lastOp'.outcome = "added"
          /\ ~lastOp'.inherit )
        => LET P == lastOp'.node
               c == lastOp'.arg
           IN  /\ \A d \in {c} \cup Descendants(c) : states'[d] = states[d]
               /\ parent'[c] = P
               /\ childList'[P] # <<>>
               /\ childList'[P][Len(childList'[P])] = c
               /\ worldMatrixDirty'[c]
               /\ aabbDirty'[c] /\ obbDirty'[c] ]_vars

\* An addChild(c, false) has just attached an object that has a child of its own
\* and whose visible state differs from the receiver's.
C30_Witness ==
    /\ lastOp.op = "addChild" /\ lastOp.outcome = "added" /\ ~lastOp.inherit
    /\ parent[lastOp.arg] = lastOp.node
    /\ states[lastOp.arg]["visible"] # states[lastOp.node]["visible"]
    /\ \E d \in Descendants(lastOp.arg) :
          /\ d # lastOp.node
          /\ states[d]["visible"] # states[lastOp.node]["visible"]
    /\ worldMatrixDirty[lastOp.arg] /\ aabbDirty[lastOp.arg]

\* C24: a worldMatrix read on n rebuilds no ancestor: the worldMatrixDirty and
\* localMatrixDirty flags and the cached world matrix of every strict ancestor
\* of n are the same after the read as before it.
AncestorCacheKept(a) ==
    /\ worldMatrixDirty'[a] = worldMatrixDirty[a]
    /\ localMatrixDirty'[a] = localMatrixDirty[a]
    /\ worldMatrix'[a] = worldMatrix[a]

C24_ReadLeavesAncestors ==
    [][ (lastOp'.op = "worldMatrix" /\ lastOp'.outcome = "ok") =>
          \A a \in StrictAncestors(lastOp'.node) : AncestorCacheKept(a) ]_vars

\* C24, amended: a worldMatrix read on n leaves the flags and the cached world
\* matrix of every strict ancestor whose world matrix was clean before the read
\* as they were, and of every strict ancestor when n's own world matrix was
\* clean; an ancestor that is rebuilt was dirty, and so was n.
C24_ReadLeavesCleanAncestors ==
    [][ (lastOp'.op = "worldMatrix" /\ lastOp'.outcome = "ok") =>
          \A a \in StrictAncestors(lastOp'.node) :
              (~worldMatrixDirty[a] \/ ~worldMatrixDirty[lastOp'.node])
                  => AncestorCacheKept(a) ]_vars

\* A worldMatrix read has just returned for a moved object under a moved parent
\* whose own world matrix is cached, and the value read composes the two.
C24_Witness ==
    /\ lastOp.op = "worldMatrix" /\ lastOp.outcome = "ok"
    /\ parent[lastOp.node] # NoParent
    /\ ~worldMatrixDirty[parent[lastOp.node]] /\ ~worldMatrixDirty[lastOp.node]
    /\ position[lastOp.node] # 0 /\ position[parent[lastOp.node]] # 0
    /\ worldMatrix[parent[lastOp.node]].t = position[parent[lastOp.node]]
    /\ retMatrix = mulMat4(worldMatrix[parent[lastOp.node]], localMatrix[lastOp.node])
    /\ retMatrix # worldMatrix[parent[lastOp.node]]

\* C22: immediately after the matrix property is set on n, n's localMatrixDirty
\* is false, worldMatrixDirty and worldNormalMatrixDirty are true on n and on
\* every descendant of n, and a read of n's local matrix returns exactly the
\* matrix that was set.
C22_MatrixSetIsAuthoritative ==
    [][ \A n \in Nodes :
          (lastOp'.op = "matrix" /\ lastOp'.outcome = "ok" /\ lastOp'.node = n) =>
              /\ ~localMatrixDirty'[n]
              /\ \A d \in {n} \cup Descendants(n) :
                    worldMatrixDirty'[d] /\ worldNormalMatrixDirty'[d]
              /\ CurrentLocal(n)' = lastOp'.matrix ]_vars

\* C23: after each of set rotation, set quaternion, set matrix and rotate, the
\* object's stored Euler rotation and its stored quaternion represent the same
\* rotation.
SameRotation(deg, q) == RotOf(eulerToQuaternion(deg)) = RotOf(q)

C23_EulerMatchesQuaternion ==
    (Returned /\ lastOp.op \in {"rotation", "quaternion", "matrix", "rotate"}) =>
        SameRotation(rotation[lastOp.node], quaternion[lastOp.node])

\* C25: in every state and for every object, worldNormalMatrixDirty = false
\* implies worldMatrixDirty = false, and worldMatrixDirty = false implies
\* localMatrixDirty = false.
C25_DerivedNeverCleanerThanSource ==
    Returned =>
        \A n \in Nodes :
            /\ ~worldNormalMatrixDirty[n] => ~worldMatrixDirty[n]
            /\ ~worldMatrixDirty[n] => ~localMatrixDirty[n]

\* A worldNormalMatrix read has just returned for a moved child: its three
\* matrices are valid, and so are its parent's local and world matrices, while
\* the parent's world-normal matrix is still marked dirty.
C25_Witness ==
    \E n \in Nodes :
        /\ lastOp.op = "worldNormalMatrix" /\ lastOp.node = n /\ lastOp.outcome = "ok"
        /\ parent[n] # NoParent /\ position[n] # 0
        /\ ~worldNormalMatrixDirty[n] /\ ~worldMatrixDirty[n] /\ ~localMatrixDirty[n]
        /\ worldNormalMatrix[n] = transposeMat4(inverseMat4(worldMatrix[n]))
        /\ worldNormalMatrixDirty[parent[n]]
        /\ ~worldMatrixDirty[parent[n]] /\ ~localMatrixDirty[parent[n]]

InClassMapsOf(n, maps) == {class \in EntityClasses : n \in maps[class]}

C31_OneClassMap ==
    [][ /\ \A n \in Nodes :
              ~destroyed'[n] =>
                  InClassMapsOf(n, entityTypes') = {entityType'[n]} \cap EntityClasses
        /\ \A n \in Nodes :
              ( /\ lastOp'.op = "entityType" /\ lastOp'.node = n
                /\ entityType[n] \in EntityClasses /\ lastOp'.prop \in EntityClasses
                /\ entityType[n] # lastOp'.prop )
              => InClassMapsOf(n, entityTypes') = {lastOp'.prop} ]_vars

\* An object has just been given class Y while another live object is of class
\* X: each is in the map of its own class only.
C31_Witness ==
    /\ lastOp.op = "entityType" /\ lastOp.prop = "Y"
    /\ entityType[lastOp.node] = "Y"
    /\ InClassMapsOf(lastOp.node, entityTypes) = {"Y"}
    /\ \E m \in Live \ {lastOp.node} :
          entityType[m] = "X" /\ InClassMapsOf(m, entityTypes) = {"X"}

\* C32: setting entityType on n changes the membership of n only, in the
\* per-class maps, the per-state maps and the set of entities: no descendant and
\* no other object is registered, deregistered or reclassified.
MapsHolding(m, types, all, byState) ==
    [classes |-> InClassMapsOf(m, types),
     entity  |-> m \in all,
     states  |-> {prop \in EntityStates : m \in byState[prop]}]

C32_EntityTypeTouchesOnlyItsObject ==
    [][ lastOp'.op = "entityType" =>
          \A m \in Nodes \ {lastOp'.node} :
              /\ entityType'[m] = entityType[m]
              /\ MapsHolding(m, entityTypes', entities', stateEntities')
                     = MapsHolding(m, entityTypes, entities, stateEntities) ]_vars

\* A visible group with children has just been given a class: it is registered,
\* and its children, visible too, have no class and are in no map.
C32_Witness ==
    /\ lastOp.op = "entityType" /\ lastOp.prop \in EntityClasses
    /\ lastOp.node \in entities /\ lastOp.node \in stateEntities["visible"]
    /\ childList[lastOp.node] # <<>>
    /\ \A c \in Range(childList[lastOp.node]) :
          /\ c # lastOp.node /\ states[c]["visible"]
          /\ entityType[c] \notin EntityClasses
          /\ MapsHolding(c, entityTypes, entities, stateEntities)
                 = [classes |-> {}, entity |-> FALSE, states |-> {}]

\* C33: in a pass of _setBoundaryDirty no "boundary" event is delivered before
\* both the subtree walk and the ancestor walk have finished: when the first
\* handler of the pass runs, every object the pass notifies already has aabbDirty
\* and obbDirty true.
C33_WalksBeforeEvents ==
    \A i \in DOMAIN unready : unready[i] = {}

\* A rotation set on a child has just run a pass that notified the child and its
\* parent, and both are marked dirty.
C33_Witness ==
    /\ lastOp.op = "rotation" /\ lastOp.outcome = "ok"
    /\ parent[lastOp.node] # NoParent
    /\ \E i \in DOMAIN passes :
          /\ {lastOp.node, parent[lastOp.node]} \subseteq Range(passes[i])
          /\ unready[i] = {}
          /\ \A m \in Range(passes[i]) : aabbDirty[m] /\ obbDirty[m]

\* The numChildren getter.
numChildren(n) == Len(childList[n])

\* C34: in every state and for every object, the keys of the child map are the
\* ids of the objects in the child list, the child list has no duplicate
\* entries, and numChildren is the number of keys of the child map.
C34_MapMatchesList ==
    Returned =>
        \A n \in Nodes :
            /\ childMap[n] = Range(childList[n])
            /\ NoDuplicates(childList[n])
            /\ numChildren(n) = Cardinality(childMap[n])

\* C35: after any sequence of addChild, removeChild, removeChildren and earlier
\* childIDs reads, a childIDs read returns exactly the current keys of the child
\* map.
C35_ChildIDsAreCurrentKeys ==
    (Returned /\ lastOp.op = "childIDs") =>
        /\ childIDs[lastOp.node].cached
        /\ childIDs[lastOp.node].keys = childMap[lastOp.node]

\* A childIDs read has just returned the ids of an object's children, the last
\* of them attached after construction, while the id list of that child, read
\* earlier, is still cached.
C35_Witness ==
    /\ lastOp.op = "childIDs" /\ lastOp.outcome = "ok"
    /\ childIDs[lastOp.node].keys = childMap[lastOp.node]
    /\ Len(childList[lastOp.node]) = NumNodes - 1
    /\ Cardinality(childMap[lastOp.node]) = NumNodes - 1
    /\ LET c == childList[lastOp.node][NumNodes - 1]
       IN  /\ c # lastOp.node /\ parent[c] = lastOp.node
           /\ childIDs[c].cached /\ childIDs[c].keys = {}

\* C36: rotateOnWorldAxis(axis, angle) with a non-zero angle rotates the object:
\* after the call its stored quaternion is the previous one composed with the
\* given rotation, and its local matrix, its world matrix and its boundary are
\* marked dirty.
C36_RotateOnWorldAxisRotates ==
    [][ \A n \in Nodes :
          ( /\ lastOp'.op = "rotateOnWorldAxis" /\ lastOp'.outcome = "ok"
            /\ lastOp'.node = n /\ lastOp'.arg # 0 )
          => /\ RotOf(quaternion'[n]) =
                    RotOf(mulQuaternions(angleAxisToQuaternion(lastOp'.arg),
                                         quaternion[n]))
             /\ localMatrixDirty'[n] /\ worldMatrixDirty'[n]
             /\ aabbDirty'[n] /\ obbDirty'[n] ]_vars

\* C37: after any sequence of addChild and parent-set operations, adding an
\* object to itself or an ancestor to its descendant included, the parent
\* relation is acyclic: no object is reachable from itself through child lists
\* or through parent references, and every recursive walk ends.
RECURSIVE ReachedByLists(_, _)
ReachedByLists(from, fuel) ==
    IF fuel = 0 THEN from
    ELSE ReachedByLists(
             from \cup UNION {Range(childList[m]) : m \in from}, fuel - 1)

OnACycle(n) ==
    \/ n \in StrictAncestors(n)
    \/ n \in ReachedByLists(Range(childList[n]), NumNodes)

C37_HierarchyIsAcyclic ==
    /\ ~aborted
    /\ \A n \in Nodes : ~OnACycle(n)

\* C38: setting an inheritable state on n changes that property only on n and
\* on objects whose chain of parents passes through n; every other object, an
\* object removed from n with removeChild among them, keeps its value.
C38_SetStaysInSubtree ==
    [][ (lastOp'.op = "state" /\ lastOp'.outcome = "ok") =>
          \A m \in Nodes \ ({lastOp'.node} \cup Descendants(lastOp'.node)) :
              states'[m] = states[m] ]_vars

\* C39: when a "boundary" handler called during a pass of _setBoundaryDirty
\* itself sets a transform, starting a nested pass, the outer pass still
\* delivers a "boundary" event to every object it had collected and to no
\* object it had not collected.
C39_OuterPassDeliversItsOwn ==
    (Returned /\ lastOp.op = "positionObserved") =>
        Range(observed.delivered) = Range(observed.collected)

====
